---- MODULE Spec2Model ----
(***************************************************************************)
(* Order management of the cafe application: the Dish, Order and OrderDish *)
(* tables (orders/models.py) and the request handlers that read and write  *)
(* them (orders/views.py, api/views.py).  Every ORM call runs in           *)
(* autocommit mode: no handler opens a transaction.                        *)
(*                                                                         *)
(* Spec      one request at a time, each handler run to its response:      *)
(*           the handlers that write the contents of orders.               *)
(* SpecQuery one request at a time: search and revenue over orders of      *)
(*           several tables and statuses.                                  *)
(* SpecConc  requests on one order, interleaved at the ORM calls.          *)
(***************************************************************************)
EXTENDS Integers, Sequences, FiniteSets, TLC

\* ------------------------------------------------------------------ bounds
MaxOrders == 2
MaxQty == 2
MaxDishIds == 2
NumRequests == 2

\* ------------------------------------------------------------- the catalog
\* The Dish table: the two dishes of the test (Pizza 10, Salad 5).
Dish == { [id |-> 1, price |-> 10], [id |-> 2, price |-> 5] }

DishIds == { d.id : d \in Dish }

\* Dish ids a request may name: the catalog's and one that is not there.
DishIdInputs == 1 .. 3

Price(dish_id) == (CHOOSE d \in Dish : d.id = dish_id).price

\* Order.STATUS_CHOICES
STATUS_CHOICES == { "pending", "ready", "paid" }

\* An optional value is a sequence: <<>> is Python's None, <<v>> is v.
None == << >>

Some(v) == << v >>

VARIABLES
    orders,        \* the Order table: rows [id, table_number, status, total_price]
    lines,         \* the OrderDish table: rows [id, order, dish, quantity]
    nextOrderId,   \* the Order table's autoincrement
    last,          \* the last request and its response (requests run one at a time)
    reqs           \* the requests in flight (requests run concurrently):
                   \* where each is in its handler, and the handler's locals

vars == << orders, lines, nextOrderId, last, reqs >>

\* ------------------------------------------------------------ ORM helpers
\* Order.objects.filter(pk=pk)
OrderRows(pk) == { o \in orders : o.id = pk }

\* order.orderdishes.all() against the table ls
orderdishes(ls, pk) == { l \in ls : l.order = pk }

\* OrderDish.objects.filter(order=order, dish=dish) against the table ls
LinesOf(ls, pk, dish_id) == { l \in ls : l.order = pk /\ l.dish = dish_id }

\* The primary key the database gives a new OrderDish row: one no row has.
\* Keys are opaque to every handler, so a key is named by the pair it is
\* created for and a serial number among the rows of that pair.
FreshLineId(ls, pk, dish_id) ==
    LET used == { l.id[3] : l \in LinesOf(ls, pk, dish_id) }
    IN  << pk, dish_id, CHOOSE k \in 1 .. Cardinality(used) + 1 :
                            k \notin used /\ \A j \in 1 .. k - 1 : j \in used >>

\* OrderDish.objects.create(order=order, dish=dish, quantity=quantity)
insert_line(ls, pk, dish_id, quantity) ==
    ls \cup { [ id |-> FreshLineId(ls, pk, dish_id), order |-> pk, dish |-> dish_id,
                quantity |-> quantity ] }

RECURSIVE SumLinePrices(_)
SumLinePrices(S) ==
    IF S = {} THEN 0
    ELSE LET l == CHOOSE x \in S : TRUE
         IN  Price(l.dish) * l.quantity + SumLinePrices(S \ {l})

\* A plausible slip: the quantity is left out of the sum.
recompute_total_no_quantity(ls, pk) ==
    SumLinePrices({ [ l EXCEPT !.quantity = 1 ] : l \in orderdishes(ls, pk) })

\* sum(order_dish.dish.price * order_dish.quantity
\*     for order_dish in order.orderdishes.all())
recompute_total(ls, pk) == SumLinePrices(orderdishes(ls, pk))

\* A plausible slip: a row is always created, the existing one never looked up.
get_or_create_always_creates(ls, pk, dish_id) ==
    [ lines |-> insert_line(ls, pk, dish_id, 1), code |-> 302 ]

\* One turn of the loop of OrderUpdateView.post, after the dish was found:
\* get_or_create(order, dish), then quantity += 1 and save() unless created.
\* MultipleObjectsReturned (code 500) when several rows match.
get_or_create(ls, pk, dish_id) ==
    LET m == LinesOf(ls, pk, dish_id)
    IN  IF Cardinality(m) > 1
        THEN [ lines |-> ls, code |-> 500 ]
        ELSE IF m = {}
        THEN [ lines |-> insert_line(ls, pk, dish_id, 1), code |-> 302 ]
        ELSE LET l == CHOOSE x \in m : TRUE
             IN  [ lines |-> (ls \ {l}) \cup { [l EXCEPT !.quantity = @ + 1] },
                   code |-> 302 ]

\* for dish_id in dish_ids: get_object_or_404(Dish, id=dish_id); get_or_create ...
\* The loop stops at the first exception; what it saved before stays saved.
RECURSIVE add_dishes(_, _, _)
add_dishes(ls, pk, dish_ids) ==
    IF dish_ids = << >>
    THEN [ lines |-> ls, code |-> 302 ]
    ELSE IF Head(dish_ids) \notin DishIds
    THEN [ lines |-> ls, code |-> 404 ]
    ELSE LET r == get_or_create(ls, pk, Head(dish_ids))
         IN  IF r.code # 302 THEN r
             ELSE add_dishes(r.lines, pk, Tail(dish_ids))

\* A plausible slip: the test is quantity > 0, so the last unit is decremented.
remove_unit_decrements_last(ls, l) ==
    IF l.quantity > 0
    THEN (ls \ {l}) \cup { [l EXCEPT !.quantity = @ - 1] }
    ELSE ls \ {l}

\* if order_dish.quantity > 1: quantity -= 1; save()  else: delete()
remove_unit(ls, l) ==
    IF l.quantity > 1
    THEN (ls \ {l}) \cup { [l EXCEPT !.quantity = @ - 1] }
    ELSE ls \ {l}

\* A plausible slip: a dish with no line in the order is let through.
remove_dish_ignores_missing(ls, pk, dish_id) ==
    LET found == LinesOf(ls, pk, dish_id)
    IN  IF dish_id \notin DishIds
        THEN [ lines |-> ls, code |-> 404 ]
        ELSE IF found = {}
        THEN [ lines |-> ls, code |-> 302 ]
        ELSE IF Cardinality(found) > 1
        THEN [ lines |-> ls, code |-> 500 ]
        ELSE [ lines |-> remove_unit(ls, CHOOSE l \in found : TRUE), code |-> 302 ]

\* dish = get_object_or_404(Dish, id=dish_id)
\* order_dish = get_object_or_404(OrderDish, order=order, dish=dish)
\* then the unit is removed.  MultipleObjectsReturned (code 500) when several
\* rows match.
remove_dish(ls, pk, dish_id) ==
    LET found == LinesOf(ls, pk, dish_id)
    IN  IF dish_id \notin DishIds \/ found = {}
        THEN [ lines |-> ls, code |-> 404 ]
        ELSE IF Cardinality(found) > 1
        THEN [ lines |-> ls, code |-> 500 ]
        ELSE [ lines |-> remove_unit(ls, CHOOSE l \in found : TRUE), code |-> 302 ]

\* -------------------------------------------------------------- responses
\* A request and what it answered: the handler, the order it names, the HTTP
\* status, and the inputs and outputs the properties below read.
Response(op, pk, code) ==
    [ op |-> op, pk |-> pk, code |-> code, dish_ids |-> << >>, items |-> {},
      table |-> None, status |-> "", orders |-> {}, total_revenue |-> None,
      items_data |-> None ]

\* The requests in flight, and one that has not started.
Requests == 1 .. NumRequests

Idle == [ pc |-> "idle", kind |-> "", dish |-> 0, order |-> None, line |-> None,
          code |-> 0 ]

Init ==
    /\ orders = {}
    /\ lines = {}
    /\ nextOrderId = 1
    /\ last = Response("none", 0, 0)
    /\ reqs = [ p \in Requests |-> Idle ]

\* ------------------------------------------------------------- CreateOrder
\* OrderForm(request.POST).is_valid(): table_number an integer, items a
\* non-empty selection of existing dishes, status one of the model's choices.
OrderForm_is_valid(table, dish_set, status) ==
    /\ table # None
    /\ dish_set # {}
    /\ dish_set \subseteq DishIds
    /\ status \in STATUS_CHOICES

\* Dish ids in the order the queryset yields them (by primary key).
RECURSIVE Ascending(_)
Ascending(S) ==
    IF S = {} THEN << >>
    ELSE LET m == CHOOSE x \in S : \A y \in S : x <= y
         IN  << m >> \o Ascending(S \ {m})

\* for dish in form.cleaned_data['items']:
\*     OrderDish.objects.create(order=order, dish=dish, quantity=1)
RECURSIVE create_lines(_, _, _)
create_lines(ls, pk, dish_seq) ==
    IF dish_seq = << >> THEN ls
    ELSE create_lines(insert_line(ls, pk, Head(dish_seq), 1), pk, Tail(dish_seq))

\* ------------------------------------------------------------------ inputs
\* What the requests of a specification carry.  Spec exercises the contents
\* of orders (every dish list, one table, the statuses of the form);
\* SpecQuery exercises the queries (both tables, a status that is no choice,
\* the first dish only).
OptionalTable(tables) == { None } \cup { Some(t) : t \in tables }

\* Sequences of at most MaxDishIds dish ids: a request's 'dishes' list.
DishIdLists(ids) ==
    UNION { [ 1 .. n -> ids ] : n \in 0 .. MaxDishIds }

ContentInputs ==
    [ create   |-> OptionalTable({ 1 }) \X { {}, {1}, {2}, {1, 2}, {3} }
                       \X { "pending", "cancelled" },
      statuses |-> { "", "pending", "paid" },
      lists    |-> DishIdLists(DishIdInputs) ]

QueryInputs ==
    [ create   |-> OptionalTable(0 .. 1) \X { {1} } \X { "pending", "paid" },
      statuses |-> { "", "paid", "cancelled" },
      lists    |-> { << >>, << 1 >> } ]

\* SpecApi exercises the REST serializer beside the two create forms: orders
\* of one or two lines, created pending or paid.
ApiInputs ==
    [ create   |-> OptionalTable({ 1 }) \X { {1}, {1, 2} } \X { "pending", "paid" },
      statuses |-> { "", "paid" },
      lists    |-> { << >>, << 1 >> } ]

\* The JSON bodies of the REST requests: table_number, status and total_price
\* present or absent, 'items' absent, empty, or one item naming a dish and a
\* quantity.
RestInputs ==
    [ tables   |-> OptionalTable({ 1, 2 }),
      statuses |-> { "", "ready", "cancelled" },
      totals   |-> { None, Some(15) },
      items    |-> { None, Some(<< >>), Some(<< [ dish |-> 2, quantity |-> 2 ] >>) } ]

\* OrderCreateView.post: the order is saved with the model's default
\* total_price, then one OrderDish row of quantity 1 is created per dish.
OrderCreateView_post(inputs) ==
    \E in \in inputs.create :
        LET table == in[1]
            dish_set == in[2]
            status == in[3]
        IN  IF OrderForm_is_valid(table, dish_set, status)
            THEN /\ nextOrderId <= MaxOrders
                 /\ orders' = orders \cup { [ id |-> nextOrderId, table_number |-> table[1],
                                              status |-> status, total_price |-> 0 ] }
                 /\ lines' = create_lines(lines, nextOrderId, Ascending(dish_set))
                 /\ nextOrderId' = nextOrderId + 1
                 /\ last' = [ Response("OrderCreateView.post", nextOrderId, 302)
                                EXCEPT !.items = dish_set ]
                 /\ UNCHANGED reqs
            ELSE /\ last' = Response("OrderCreateView.post", 0, 200)
                 /\ UNCHANGED << orders, lines, nextOrderId, reqs >>

\* OrderListView.post: form.save() stores the order (and its items relation,
\* which no handler below reads); no OrderDish row is written.
OrderListView_post(inputs) ==
    \E in \in inputs.create :
        LET table == in[1]
            dish_set == in[2]
            status == in[3]
        IN  IF OrderForm_is_valid(table, dish_set, status)
            THEN /\ nextOrderId <= MaxOrders
                 /\ orders' = orders \cup { [ id |-> nextOrderId, table_number |-> table[1],
                                              status |-> status, total_price |-> 0 ] }
                 /\ nextOrderId' = nextOrderId + 1
                 /\ last' = [ Response("OrderListView.post", nextOrderId, 302)
                                EXCEPT !.items = dish_set ]
                 /\ UNCHANGED << lines, reqs >>
            ELSE /\ last' = Response("OrderListView.post", 0, 200)
                 /\ UNCHANGED << orders, lines, nextOrderId, reqs >>

\* ------------------------------------------------- AddDish and ChangeStatus
\* OrderUpdateView.post: the status change is saved first, then each dish of
\* the list is added, then the total is recomputed and the order saved.  An
\* exception in the loop ends the request; every save() made before it stays.
OrderUpdateView_post(inputs) ==
    \E pk \in 1 .. MaxOrders, status_change \in BOOLEAN, dish_ids \in inputs.lists :
      \E status \in IF status_change THEN inputs.statuses ELSE { "" } :
        IF OrderRows(pk) = {}
        THEN /\ last' = Response("OrderUpdateView.post", pk, 404)
             /\ UNCHANGED << orders, lines, nextOrderId, reqs >>
        ELSE LET order == CHOOSE o \in OrderRows(pk) : TRUE
                 saved == IF status_change /\ status # ""
                          THEN [ order EXCEPT !.status = status ]
                          ELSE order
                 r == add_dishes(lines, pk, dish_ids)
                 final == IF r.code = 302
                          THEN [ saved EXCEPT !.total_price = recompute_total(r.lines, pk) ]
                          ELSE saved
             IN  /\ \A l \in r.lines : l.quantity <= MaxQty
                 /\ orders' = (orders \ { order }) \cup { final }
                 /\ lines' = r.lines
                 /\ last' = [ Response("OrderUpdateView.post", pk, r.code)
                                EXCEPT !.dish_ids = IF r.code = 302 THEN dish_ids
                                                    ELSE << >> ]
                 /\ UNCHANGED << nextOrderId, reqs >>

\* ------------------------------------------------------------ RemoveOneUnit
\* OrderRemoveDishView.post: without a dish_id the request only redirects;
\* with one, the unit is removed, the total recomputed and the order saved.
OrderRemoveDishView_post ==
    \E order_id \in 1 .. MaxOrders,
       dish_id \in { None } \cup { Some(d) : d \in DishIdInputs } :
        IF OrderRows(order_id) = {}
        THEN /\ last' = Response("OrderRemoveDishView.post", order_id, 404)
             /\ UNCHANGED << orders, lines, nextOrderId, reqs >>
        ELSE IF dish_id = None
        THEN /\ last' = Response("OrderRemoveDishView.post", order_id, 302)
             /\ UNCHANGED << orders, lines, nextOrderId, reqs >>
        ELSE LET order == CHOOSE o \in OrderRows(order_id) : TRUE
                 r == remove_dish(lines, order_id, dish_id[1])
             IN  /\ lines' = r.lines
                 /\ orders' = IF r.code = 302
                              THEN (orders \ { order }) \cup
                                   { [ order EXCEPT !.total_price =
                                                      recompute_total(r.lines, order_id) ] }
                              ELSE orders
                 /\ last' = [ Response("OrderRemoveDishView.post", order_id, r.code)
                                EXCEPT !.dish_ids = dish_id ]
                 /\ UNCHANGED << nextOrderId, reqs >>

\* -------------------------------------------------------------- DeleteOrder
\* A foreign key that leaves the referring rows behind when the order goes.
on_delete_DO_NOTHING(ls, pk) == ls

\* OrderDish.order, on_delete=CASCADE: the OrderDish rows that are left once
\* order pk is deleted.
on_delete_CASCADE(ls, pk) == ls \ orderdishes(ls, pk)

\* OrderDeleteView.get: order.delete() takes the order's OrderDish rows with
\* it.
OrderDeleteView_get ==
    \E pk \in 1 .. MaxOrders :
        IF OrderRows(pk) = {}
        THEN /\ last' = Response("OrderDeleteView.get", pk, 404)
             /\ UNCHANGED << orders, lines, nextOrderId, reqs >>
        ELSE /\ orders' = orders \ OrderRows(pk)
             /\ lines' = on_delete_CASCADE(lines, pk)
             /\ last' = Response("OrderDeleteView.get", pk, 302)
             /\ UNCHANGED << nextOrderId, reqs >>

\* ---------------------------------------------------------------- REST API
\* The reverse accessors an Order instance has: OrderDish.order is declared
\* with related_name='orderdishes', which replaces the default orderdish_set.
Order_reverse_accessors == { "orderdishes" }

\* OrderDishSerializer: 'id' and 'dish' are read-only, so the validated data
\* of an item holds its quantity and nothing else.
OrderDishSerializer_validated(item) == [ quantity |-> item.quantity ]

\* OrderSerializer(data=...).is_valid(): table_number and items are required
\* unless the update is partial; status, when given, must be a choice;
\* total_price is optional.
OrderSerializer_is_valid(partial, table, status, items) ==
    /\ partial \/ table # None
    /\ partial \/ items # None
    /\ status = "" \/ status \in STATUS_CHOICES

\* OrderDish.objects.create(order=order, **item_data): OrderDish.dish is a
\* foreign key that is not nullable, so a row without a dish is refused.
OrderDish_objects_create(ls, pk, item_data) ==
    IF "dish" \in DOMAIN item_data
    THEN [ lines |-> insert_line(ls, pk, item_data.dish, item_data.quantity), code |-> 0 ]
    ELSE [ lines |-> ls, code |-> 500 ]

\* for item_data in items_data: OrderDish.objects.create(...).  The first
\* exception ends the loop; the rows created before it stay.
RECURSIVE create_items(_, _, _)
create_items(ls, pk, items_data) ==
    IF items_data = << >> THEN [ lines |-> ls, code |-> 0 ]
    ELSE LET r == OrderDish_objects_create(ls, pk,
                      OrderDishSerializer_validated(Head(items_data)))
         IN  IF r.code # 0 THEN r ELSE create_items(r.lines, pk, Tail(items_data))

\* instance.orderdish_set.all().delete(), then the loop that creates the new
\* rows.  The accessor is looked up on the instance first.
replace_items(ls, pk, items_data) ==
    IF "orderdish_set" \in Order_reverse_accessors
    THEN create_items(ls \ orderdishes(ls, pk), pk, items_data)
    ELSE [ lines |-> ls, code |-> 500 ]

\* serializer.data: the 'items' field reads its source, orderdish_set, from
\* the instance; the response is built after the data has been saved.
serializer_data(code) ==
    IF "orderdish_set" \in Order_reverse_accessors THEN code ELSE 500

\* OrderSerializer.create: the order is inserted with the validated fields
\* (status and total_price fall back on the model's defaults), then the items.
OrderSerializer_create ==
    \E table \in RestInputs.tables, status \in RestInputs.statuses,
       total \in RestInputs.totals, items \in RestInputs.items :
        IF OrderSerializer_is_valid(FALSE, table, status, items)
        THEN LET r == create_items(lines, nextOrderId, items[1])
             IN  /\ nextOrderId <= MaxOrders
                 /\ orders' = orders \cup
                        { [ id |-> nextOrderId, table_number |-> table[1],
                            status |-> IF status = "" THEN "pending" ELSE status,
                            total_price |-> IF total = None THEN 0 ELSE total[1] ] }
                 /\ lines' = r.lines
                 /\ nextOrderId' = nextOrderId + 1
                 /\ last' = [ Response("OrderSerializer.create", nextOrderId,
                                       IF r.code # 0 THEN r.code ELSE serializer_data(201))
                                EXCEPT !.items_data = items ]
                 /\ UNCHANGED reqs
        ELSE /\ last' = Response("OrderSerializer.create", 0, 400)
             /\ UNCHANGED << orders, lines, nextOrderId, reqs >>

\* OrderSerializer.update: table_number and status are saved first; the items
\* are replaced afterwards, outside any transaction.
OrderSerializer_update ==
    \E pk \in 1 .. MaxOrders, partial \in BOOLEAN,
       table \in RestInputs.tables, status \in RestInputs.statuses,
       items \in RestInputs.items :
        IF OrderRows(pk) = {}
        THEN /\ last' = Response("OrderSerializer.update", pk, 404)
             /\ UNCHANGED << orders, lines, nextOrderId, reqs >>
        ELSE IF ~ OrderSerializer_is_valid(partial, table, status, items)
        THEN /\ last' = Response("OrderSerializer.update", pk, 400)
             /\ UNCHANGED << orders, lines, nextOrderId, reqs >>
        ELSE LET instance == CHOOSE o \in OrderRows(pk) : TRUE
                 saved == [ instance EXCEPT
                              !.table_number = IF table # None THEN table[1] ELSE @,
                              !.status = IF status # "" THEN status ELSE @ ]
                 r == IF items # None
                      THEN replace_items(lines, pk, items[1])
                      ELSE [ lines |-> lines, code |-> 0 ]
             IN  /\ orders' = (orders \ { instance }) \cup { saved }
                 /\ lines' = r.lines
                 /\ last' = [ Response("OrderSerializer.update", pk,
                                       IF r.code # 0 THEN r.code ELSE serializer_data(200))
                                EXCEPT !.items_data = items ]
                 /\ UNCHANGED << nextOrderId, reqs >>

\* ------------------------------------------------------------------ Search
\* A truthy int of Python: not None and not 0.
truthy_int(v) == v # None /\ v[1] # 0

\* A truthy query-string value: present and not empty (the text "0" is truthy).
truthy_str(v) == v # None

\* OrderSearchForm(request.GET or None).is_valid(): the form is bound only if
\* the query string is not empty, and status must be '' or one of the choices.
OrderSearchForm_is_valid(table, status) ==
    /\ table # None \/ status # ""
    /\ status \in { "" } \cup STATUS_CHOICES

\* order_search: the filters are applied only to a valid form, and each only
\* if its cleaned value is truthy.
form_filter(ords, table, status) ==
    IF OrderSearchForm_is_valid(table, status)
    THEN { o \in ords : /\ truthy_int(table) => o.table_number = table[1]
                        /\ status # "" => o.status = status }
    ELSE ords

\* OrderViewSet.search: each filter is applied if its query parameter is truthy.
api_filter(ords, table, status) ==
    { o \in ords : /\ truthy_str(table) => o.table_number = table[1]
                   /\ status # "" => o.status = status }

\* What a search request may carry.
SearchInputs == OptionalTable(0 .. 1) \X { "", "pending", "paid", "bogus" }

order_search ==
    \E in \in SearchInputs :
        /\ last' = [ Response("order_search", 0, 200)
                       EXCEPT !.table = in[1], !.status = in[2],
                              !.orders = { o.id : o \in form_filter(orders, in[1], in[2]) } ]
        /\ UNCHANGED << orders, lines, nextOrderId, reqs >>

OrderViewSet_search ==
    \E in \in SearchInputs :
        /\ last' = [ Response("OrderViewSet.search", 0, 200)
                       EXCEPT !.table = in[1], !.status = in[2],
                              !.orders = { o.id : o \in api_filter(orders, in[1], in[2]) } ]
        /\ UNCHANGED << orders, lines, nextOrderId, reqs >>

\* ----------------------------------------------------------------- Revenue
\* queryset.aggregate(Sum('total_price'))['total_price__sum']: SQL's SUM over
\* the rows, NULL (None) when there is no row.
RECURSIVE SumTotalPrice(_)
SumTotalPrice(rows) ==
    IF rows = {} THEN 0
    ELSE LET o == CHOOSE x \in rows : TRUE
         IN  o.total_price + SumTotalPrice(rows \ {o})

aggregate_Sum(rows) == IF rows = {} THEN None ELSE Some(SumTotalPrice(rows))

\* A plausible slip: every order is summed, not only the paid ones.
total_revenue_of_all(ords) ==
    LET s == aggregate_Sum(ords)
    IN  IF s = None \/ s[1] = 0 THEN 0 ELSE s[1]

\* Order.objects.filter(status='paid').aggregate(...)['total_price__sum'] or 0
total_revenue(ords) ==
    LET s == aggregate_Sum({ o \in ords : o.status = "paid" })
    IN  IF s = None \/ s[1] = 0 THEN 0 ELSE s[1]

revenue_calculation ==
    /\ last' = [ Response("revenue_calculation", 0, 200)
                   EXCEPT !.total_revenue = Some(total_revenue(orders)),
                          !.orders = { o.id : o \in { x \in orders : x.status = "paid" } } ]
    /\ UNCHANGED << orders, lines, nextOrderId, reqs >>

\* ------------------------------------------------------ concurrent requests
\* No handler opens a transaction and no row is locked: in autocommit mode each
\* ORM call is a statement of its own, and the statements of two requests
\* interleave.  The requests below are OrderUpdateView.post with one dish and
\* OrderRemoveDishView.post, all on the order ConcOrder.

\* An order a request sequence leaves behind: one Pizza, total reconciled.
ConcInitOrders == { [ id |-> 1, table_number |-> 1, status |-> "pending", total_price |-> 10 ] }

ConcInitLines == { [ id |-> << 1, 1, 1 >>, order |-> 1, dish |-> 1, quantity |-> 1 ] }

ConcOrder == (CHOOSE o \in ConcInitOrders : TRUE).id

InitConc ==
    /\ orders = ConcInitOrders
    /\ lines = ConcInitLines
    /\ nextOrderId = ConcOrder + 1
    /\ last = Response("none", 0, 0)
    /\ reqs = [ p \in Requests |-> Idle ]

\* The OrderDish rows the requests in flight hold a copy of.
HeldLines == { reqs[p].line[1] : p \in { q \in Requests : reqs[q].line # None } }

\* Model.save(): UPDATE the row of that primary key; INSERT it if there is none.
save_row(ls, row) == { l \in ls : l.id # row.id } \cup { row }

\* Model.delete(): DELETE the row of that primary key.
delete_row(ls, row) == { l \in ls : l.id # row.id }

Goto(p, pc) == reqs' = [ reqs EXCEPT ![p].pc = pc ]

Finish(p, code) == reqs' = [ reqs EXCEPT ![p].pc = "done", ![p].code = code ]

\* order = get_object_or_404(Order, pk=pk); dish = get_object_or_404(Dish, id=dish_id)
get_order(p) ==
    /\ reqs[p].pc = "idle"
    /\ \E kind \in { "add", "remove" }, dish_id \in DishIds :
         reqs' = [ reqs EXCEPT ![p] =
                     [ Idle EXCEPT !.pc = IF kind = "add" THEN "get_or_create" ELSE "get_line",
                                   !.kind = kind, !.dish = dish_id,
                                   !.order = Some(CHOOSE o \in OrderRows(ConcOrder) : TRUE) ] ]
    /\ UNCHANGED << orders, lines, nextOrderId, last >>

\* get_or_create, its lookup: OrderDish.objects.get(order=order, dish=dish)
get_or_create_get(p) ==
    /\ reqs[p].pc = "get_or_create"
    /\ LET m == LinesOf(lines, ConcOrder, reqs[p].dish)
       IN  IF Cardinality(m) > 1 THEN Finish(p, 500)
           ELSE IF m = {} THEN Goto(p, "create")
           ELSE reqs' = [ reqs EXCEPT ![p].pc = "save_line",
                                      ![p].line = Some(CHOOSE l \in m : TRUE) ]
    /\ UNCHANGED << orders, lines, nextOrderId, last >>

\* get_or_create, no row found: OrderDish.objects.create(order=order, dish=dish)
get_or_create_create(p) ==
    /\ reqs[p].pc = "create"
    /\ lines' = lines \cup
         { [ id |-> FreshLineId(lines \cup HeldLines, ConcOrder, reqs[p].dish),
             order |-> ConcOrder, dish |-> reqs[p].dish, quantity |-> 1 ] }
    /\ Goto(p, "total")
    /\ UNCHANGED << orders, nextOrderId, last >>

\* if not created: order_dish.quantity += 1; order_dish.save()
save_line(p) ==
    /\ reqs[p].pc = "save_line"
    /\ LET row == [ reqs[p].line[1] EXCEPT !.quantity = @ + 1 ]
       IN  /\ lines' = save_row(lines, row)
           /\ reqs' = [ reqs EXCEPT ![p].pc = "total", ![p].line = Some(row) ]
    /\ UNCHANGED << orders, nextOrderId, last >>

\* order_dish = get_object_or_404(OrderDish, order=order, dish=dish)
get_line(p) ==
    /\ reqs[p].pc = "get_line"
    /\ LET m == LinesOf(lines, ConcOrder, reqs[p].dish)
       IN  IF m = {} THEN Finish(p, 404)
           ELSE IF Cardinality(m) > 1 THEN Finish(p, 500)
           ELSE reqs' = [ reqs EXCEPT ![p].pc = "remove",
                                      ![p].line = Some(CHOOSE l \in m : TRUE) ]
    /\ UNCHANGED << orders, lines, nextOrderId, last >>

\* if order_dish.quantity > 1: quantity -= 1; save()  else: delete()
remove_line(p) ==
    /\ reqs[p].pc = "remove"
    /\ LET held == reqs[p].line[1]
           row == [ held EXCEPT !.quantity = @ - 1 ]
       IN  IF held.quantity > 1
           THEN /\ lines' = save_row(lines, row)
                /\ reqs' = [ reqs EXCEPT ![p].pc = "total", ![p].line = Some(row) ]
           ELSE /\ lines' = delete_row(lines, held)
                /\ reqs' = [ reqs EXCEPT ![p].pc = "total", ![p].line = None ]
    /\ UNCHANGED << orders, nextOrderId, last >>

\* order.total_price = sum(... for order_dish in order.orderdishes.all())
compute_total(p) ==
    /\ reqs[p].pc = "total"
    /\ reqs' = [ reqs EXCEPT ![p].pc = "save_order",
                             ![p].order = Some([ reqs[p].order[1] EXCEPT !.total_price =
                                                   recompute_total(lines, ConcOrder) ]) ]
    /\ UNCHANGED << orders, lines, nextOrderId, last >>

\* order.save(): every field of the copy loaded at the start is written.
save_order(p) ==
    /\ reqs[p].pc = "save_order"
    /\ orders' = { o \in orders : o.id # ConcOrder } \cup { reqs[p].order[1] }
    /\ Finish(p, 302)
    /\ UNCHANGED << lines, nextOrderId, last >>

\* ----------------------------------------------------------- specifications
Next ==
    \/ OrderCreateView_post(ContentInputs)
    \/ OrderListView_post(ContentInputs)
    \/ OrderUpdateView_post(ContentInputs)
    \/ OrderRemoveDishView_post
    \/ OrderDeleteView_get

Spec == Init /\ [][Next]_vars

NextQuery ==
    \/ OrderListView_post(QueryInputs)
    \/ OrderUpdateView_post(QueryInputs)
    \/ OrderDeleteView_get
    \/ order_search
    \/ OrderViewSet_search
    \/ revenue_calculation

SpecQuery == Init /\ [][NextQuery]_vars

NextApi ==
    \/ OrderCreateView_post(ApiInputs)
    \/ OrderListView_post(ApiInputs)
    \/ OrderSerializer_create
    \/ OrderSerializer_update

SpecApi == Init /\ [][NextApi]_vars

NextConc ==
    \E p \in Requests :
        \/ get_order(p)
        \/ get_or_create_get(p)
        \/ get_or_create_create(p)
        \/ save_line(p)
        \/ get_line(p)
        \/ remove_line(p)
        \/ compute_total(p)
        \/ save_order(p)

SpecConc == InitConc /\ [][NextConc]_vars

\* ---------------------------------------------------------------- properties
\* What an order's lines say, stated apart from the handlers' own sum: the
\* units of one dish in an order, and the order's value dish by dish.
RECURSIVE Units(_)
Units(rows) ==
    IF rows = {} THEN 0
    ELSE LET l == CHOOSE x \in rows : TRUE IN l.quantity + Units(rows \ {l})

QuantityOf(ls, pk, dish_id) == Units(LinesOf(ls, pk, dish_id))

RECURSIVE ValueOver(_, _, _)
ValueOver(ls, pk, dish_ids) ==
    IF dish_ids = {} THEN 0
    ELSE LET d == CHOOSE x \in dish_ids : TRUE
         IN  Price(d) * QuantityOf(ls, pk, d) + ValueOver(ls, pk, dish_ids \ {d})

OrderValue(ls, pk) == ValueOver(ls, pk, DishIds)

RECURSIVE Occurrences(_, _)
Occurrences(x, seq) ==
    IF seq = << >> THEN 0
    ELSE (IF Head(seq) = x THEN 1 ELSE 0) + Occurrences(x, Tail(seq))

\* The last request was an AddDish that succeeded.
AddDishDone(r) ==
    r.op = "OrderUpdateView.post" /\ r.code = 302 /\ r.dish_ids # << >>

\* The last request was a RemoveOneUnit that succeeded.
RemoveOneUnitDone(r) ==
    r.op = "OrderRemoveDishView.post" /\ r.code = 302 /\ r.dish_ids # None

\* C1: after a successful AddDish or RemoveOneUnit, the order's stored
\* total_price is the sum of dish.price * quantity over its current lines.
C1_TotalPriceIsSumOfLines ==
    (AddDishDone(last) \/ RemoveOneUnitDone(last)) =>
        \A o \in OrderRows(last.pk) : o.total_price = OrderValue(lines, o.id)

\* An order holding two Pizzas and a Salad after a unit was removed: total 25.
C1_Witness ==
    /\ RemoveOneUnitDone(last)
    /\ \E o \in OrderRows(last.pk) :
         /\ o.total_price = 25
         /\ QuantityOf(lines, o.id, 1) = 2
         /\ QuantityOf(lines, o.id, 2) = 1

\* C2: right after CreateOrder the new order has one line of quantity 1 per
\* dish of the list, and its stored total_price is the sum of their prices.
C2_CreatedOrderIsPriced ==
    (last.op \in { "OrderCreateView.post", "OrderListView.post" } /\ last.code = 302) =>
        \A o \in OrderRows(last.pk) :
            /\ \A d \in DishIds :
                 /\ Cardinality(LinesOf(lines, o.id, d)) = (IF d \in last.items THEN 1 ELSE 0)
                 /\ QuantityOf(lines, o.id, d) = (IF d \in last.items THEN 1 ELSE 0)
            /\ o.total_price = ValueOver(create_lines({}, o.id, Ascending(last.items)),
                                         o.id, last.items)

\* C3: there is at most one line per (order, dish), and a successful AddDish
\* raises the quantity of each dish by the number of times the request names
\* it: a dish without a line gets one line of quantity 1, a dish with a line
\* has that line's quantity raised by 1, and no second line is created.
C3_OneLinePerDishAddAccumulates ==
    [][ /\ \A o \in orders', d \in DishIds : Cardinality(LinesOf(lines', o.id, d)) <= 1
        /\ (last'.op = "OrderUpdateView.post" /\ last'.code = 302) =>
               /\ \A d \in DishIds :
                    QuantityOf(lines', last'.pk, d) =
                        QuantityOf(lines, last'.pk, d) + Occurrences(d, last'.dish_ids)
               /\ lines' \ orderdishes(lines', last'.pk) = lines \ orderdishes(lines, last'.pk)
      ]_vars

\* AddDish of a dish the order already held once: one line, quantity 2.
C3_Witness ==
    /\ last.op = "OrderUpdateView.post" /\ last.code = 302
    /\ last.dish_ids = << 1 >>
    /\ Cardinality(LinesOf(lines, last.pk, 1)) = 1
    /\ QuantityOf(lines, last.pk, 1) = 2

\* C4: an AddDish request that fails (a dish id that does not exist) leaves
\* the order's status, its lines and its total_price as they were.
C4_FailedUpdateChangesNothing ==
    [][ (last'.op = "OrderUpdateView.post" /\ last'.code = 404) =>
            (orders' = orders /\ lines' = lines) ]_vars

\* C5: once concurrent AddDish and RemoveOneUnit requests on an order have all
\* finished, its total_price is the sum over its final lines, every request's
\* unit is accounted for, and there is at most one line per dish.
C5_ConcurrentRequestsSerialize ==
    (\A p \in Requests : reqs[p].pc = "done") =>
        /\ \A o \in orders : o.total_price = OrderValue(lines, o.id)
        /\ \A d \in DishIds :
             /\ Cardinality(LinesOf(lines, ConcOrder, d)) <= 1
             /\ QuantityOf(lines, ConcOrder, d) =
                    QuantityOf(ConcInitLines, ConcOrder, d)
                    + Cardinality({ p \in Requests : /\ reqs[p].kind = "add"
                                                     /\ reqs[p].dish = d
                                                     /\ reqs[p].code = 302 })
                    - Cardinality({ p \in Requests : /\ reqs[p].kind = "remove"
                                                     /\ reqs[p].dish = d
                                                     /\ reqs[p].code = 302 })

\* C6: every order's status is one of pending, ready, paid.
C6_StatusIsAChoice ==
    \A o \in orders : o.status \in STATUS_CHOICES

\* C7: RemoveOneUnit of a dish that has no line in the order answers not found
\* and leaves the order's lines, quantities, status and total_price as they were.
C7_RemoveMissingDishIsNotFound ==
    [][ ( /\ last'.op = "OrderRemoveDishView.post"
          /\ last'.dish_ids # None
          /\ OrderRows(last'.pk) # {}
          /\ LinesOf(lines, last'.pk, last'.dish_ids[1]) = {} ) =>
            (last'.code = 404 /\ orders' = orders /\ lines' = lines) ]_vars

\* RemoveOneUnit of Salad on an order that holds only Pizza, total not yet
\* reconciled.
C7_Witness ==
    /\ last.op = "OrderRemoveDishView.post" /\ last.code = 404
    /\ last.dish_ids = Some(2)
    /\ LinesOf(lines, last.pk, 1) # {}
    /\ \E o \in OrderRows(last.pk) : o.total_price # OrderValue(lines, o.id)

\* C8: RemoveOneUnit deletes a line of quantity 1 and lowers a line of
\* quantity q > 1 to q - 1; every other line is unchanged, and no line holds a
\* quantity below 1.
C8_RemoveOneUnitStep ==
    [][ /\ \A l \in lines' : l.quantity >= 1
        /\ RemoveOneUnitDone(last') =>
             LET pk == last'.pk
                 d == last'.dish_ids[1]
                 q == QuantityOf(lines, pk, d)
             IN  /\ q >= 1
                 /\ q = 1 => LinesOf(lines', pk, d) = {}
                 /\ q > 1 => LinesOf(lines', pk, d) =
                                { [ l EXCEPT !.quantity = q - 1 ] : l \in LinesOf(lines, pk, d) }
                 /\ lines' \ LinesOf(lines', pk, d) = lines \ LinesOf(lines, pk, d)
      ]_vars

\* A Pizza line lowered from 2 to 1 beside a Salad line.
C8_Witness ==
    /\ RemoveOneUnitDone(last)
    /\ last.dish_ids = Some(1)
    /\ QuantityOf(lines, last.pk, 1) = 1
    /\ QuantityOf(lines, last.pk, 2) = 2
    /\ \E o \in OrderRows(last.pk) : o.total_price = 20

\* C9: Search returns exactly the orders whose table_number equals the supplied
\* table number (0 included) and whose status equals the supplied status.
C9_SearchReturnsMatches ==
    ( /\ last.op \in { "order_search", "OrderViewSet.search" }
      /\ last.status \in { "" } \cup STATUS_CHOICES ) =>
        last.orders = { o.id : o \in { x \in orders :
                            /\ last.table # None => x.table_number = last.table[1]
                            /\ last.status # "" => x.status = last.status } }

\* The sum of total_price over the paid orders, order id by order id.
RECURSIVE PaidTotalUpTo(_, _)
PaidTotalUpTo(ords, n) ==
    IF n = 0 THEN 0
    ELSE LET paid == { o \in ords : o.id = n /\ o.status = "paid" }
         IN  (IF paid = {} THEN 0 ELSE (CHOOSE o \in paid : TRUE).total_price)
             + PaidTotalUpTo(ords, n - 1)

\* C10: Revenue is the sum of the stored total_price over exactly the paid
\* orders, 0 when none is paid, and computing it changes no order and no line.
C10_RevenueIsPaidTotal ==
    [][ last'.op = "revenue_calculation" =>
            /\ last'.total_revenue = Some(PaidTotalUpTo(orders, nextOrderId - 1))
            /\ orders' = orders /\ lines' = lines /\ nextOrderId' = nextOrderId ]_vars

\* Revenue 20 from one paid order while an unpaid order holds a total of 10.
C10_Witness ==
    /\ last.op = "revenue_calculation"
    /\ last.total_revenue = Some(20)
    /\ \E o \in orders : o.status # "paid" /\ o.total_price = 10

\* C11: every OrderDish row refers to an existing order; DeleteOrder removes
\* the order and all of its lines whatever its status and leaves the other
\* orders and their lines unchanged; DeleteOrder of an order that does not
\* exist answers not found and changes nothing.
C11_DeleteCascadesToLines ==
    [][ /\ \A l \in lines' : \E o \in orders' : o.id = l.order
        /\ last'.op = "OrderDeleteView.get" =>
             IF OrderRows(last'.pk) = {}
             THEN last'.code = 404 /\ orders' = orders /\ lines' = lines
             ELSE /\ last'.code = 302
                  /\ \A o \in orders' : o.id # last'.pk
                  /\ orderdishes(lines', last'.pk) = {}
                  /\ orders' = orders \ OrderRows(last'.pk)
                  /\ lines' = lines \ orderdishes(lines, last'.pk)
      ]_vars

\* An order was deleted while a paid order keeps its two lines.
C11_Witness ==
    /\ last.op = "OrderDeleteView.get" /\ last.code = 302
    /\ OrderRows(last.pk) = {}
    /\ \E o \in orders : /\ o.status = "paid"
                          /\ Cardinality(orderdishes(lines, o.id)) = 2

\* The (dish, quantity) pairs of a supplied item list.
SuppliedItems(items_data) ==
    { << items_data[i].dish, items_data[i].quantity >> : i \in DOMAIN items_data }

\* C12: a valid REST update that supplies an item list leaves the order with
\* exactly the supplied items as its lines, one line per item and none of the
\* earlier lines; a rejected update, and one that supplies no item list, leave
\* every line unchanged; the lines of other orders are never touched.
C12_RestUpdateReplacesLines ==
    [][ last'.op = "OrderSerializer.update" =>
          LET pk == last'.pk
              now == orderdishes(lines', pk)
          IN  /\ lines' \ now = lines \ orderdishes(lines, pk)
              /\ IF last'.code \in { 400, 404 } \/ last'.items_data = None
                 THEN lines' = lines
                 ELSE /\ { << l.dish, l.quantity >> : l \in now } =
                             SuppliedItems(last'.items_data[1])
                      /\ Cardinality(now) = Len(last'.items_data[1])
      ]_vars

\* C13: every order starts with status pending, whatever the create request
\* contains: an order that appears in a step (through either create form or
\* the REST create) has status pending, so that any other status is the work
\* of a later request.
C13_CreatedOrderIsPending ==
    [][ \A o \in orders' :
            (\A x \in orders : x.id # o.id) => o.status = "pending" ]_vars

====
